---- MODULE Spec2Model ----
(***************************************************************************)
(* Model of ext-image-occlusion.js: the Image Occlusion extension of       *)
(* SVG-Edit.  The extension keeps the OCR rectangles delivered by Python   *)
(* (svgCanvas.storedOcrRects), draws them as <rect> elements, either all   *)
(* of them (drawOcrRects) or those meeting a selection box                 *)
(* (drawOcrRectsInSelection), and registers each drawing as one batch      *)
(* command of the editor's undo history (finalizeCreation).                *)
(*                                                                         *)
(* A JavaScript array argument that may be null/undefined is a record      *)
(* [present, items]: present = FALSE is the absent (falsy) argument.       *)
(* A falsy action name (undefined or "") is the empty string.              *)
(***************************************************************************)
EXTENDS Integers, Sequences, FiniteSets, TLC

\* ---------------------------------------------------------------- bounds
\* Longest array handed to storeOcrResults / drawOcrRects.
MaxLen == 2
\* Most elements the document holds; a draw that would exceed it is not taken.
MaxElems == 3
\* Coordinates and sizes of the geometry sweep of the intersection test.
SelMaxCoord == 2
SelMaxSize == 2

VARIABLES
    storedOcrRects,   \* svgCanvas.storedOcrRects
    doc,              \* elements the extension added to the drawing, in order
    nextId,           \* the canvas's id allocator (getNextId)
    history,          \* the editor's undo stack: batch commands, oldest first
    changed,          \* payloads of the "changed" events emitted, oldest first
    last,             \* history variable: the latest call and its argument
    lastDelivery,     \* history variable: argument of the latest storeOcrResults
    draws             \* history variable: draw calls that created an element

vars == <<storedOcrRects, doc, nextId, history, changed, last, lastDelivery, draws>>

\* ------------------------------------------------------------ input values
Absent == [present |-> FALSE, items |-> <<>>]
Given(s) == [present |-> TRUE, items |-> s]

IsEmptyOrAbsent(a) == ~a.present \/ Len(a.items) = 0

\* Two OCR rectangles; every field of RectA differs from the others.
RectA == [x |-> 0, y |-> 1, w |-> 2, h |-> 3]
RectB == [x |-> 2, y |-> 0, w |-> 3, h |-> 1]
Rects == {RectA, RectB}

\* Selection boxes: over RectA only, over RectB only, over both, and one that
\* shares an edge with each of them without overlapping either.
BoxA     == [x |-> 0, y |-> 1, width |-> 2, height |-> 2]
BoxB     == [x |-> 3, y |-> 0, width |-> 1, height |-> 1]
BoxAll   == [x |-> 0, y |-> 0, width |-> 3, height |-> 2]
BoxTouch == [x |-> 2, y |-> 1, width |-> 1, height |-> 1]
Boxes == {BoxA, BoxB, BoxAll, BoxTouch}
NoBox == [x |-> 0, y |-> 0, width |-> 0, height |-> 0]

SeqsUpTo(S, n) == UNION {[1..k -> S] : k \in 0..n}

\* Arguments of storeOcrResults and drawOcrRects: absent, empty, or a list.
RectArgs == {Absent} \cup {Given(s) : s \in SeqsUpTo(Rects, MaxLen)}

\* Geometry sweep: every rectangle and box on a small grid, degenerate and
\* negative sizes included (the extension validates nothing).
SelRects == [x : 0..SelMaxCoord, y : 0..SelMaxCoord,
             w : (-1)..SelMaxSize, h : (-1)..SelMaxSize]
SelBoxes == [x : 0..SelMaxCoord, y : 0..SelMaxCoord,
             width : 0..SelMaxSize, height : 0..SelMaxSize]

\* ------------------------------------------------------------------ names
DefaultName == "Create Occlusion Masks"
DrawAllName == "Create All Occlusion Masks"
DrawSelName == "Create Occlusion Masks in Selection"

\* ------------------------------------------------------ finalizeCreation
\* new InsertElementCommand(elem)
InsertElementCommand(elem) == [type |-> "insert", elem |-> elem]

\* batchCmd.addSubCommand(cmd)
addSubCommand(batchCmd, cmd) ==
    [batchCmd EXCEPT !.stack = Append(@, cmd)]

\* batchCmd.isEmpty()
isEmpty(batchCmd) == Len(batchCmd.stack) = 0

\* Variant of the loop that walks forward: for (i = 0; i < length; i++).
AddSubCommands_Forward(batchCmd, new_elems, i) ==
    [batchCmd EXCEPT
        !.stack = @ \o [k \in 1..i |-> InsertElementCommand(new_elems[k])]]

\* Variant of the loop that stops one short: for (...; i > 0; i--).
AddSubCommands_SkipFirst(batchCmd, new_elems, i) ==
    [batchCmd EXCEPT
        !.stack = @ \o [k \in 1..(i - 1) |->
                            InsertElementCommand(new_elems[i + 1 - k])]]

\* The loop of finalizeCreation: for (i = length - 1; i >= 0; i--), with the
\* 1-based index i running from Len(new_elems) down to 1.
RECURSIVE AddSubCommands(_, _, _)
AddSubCommands(batchCmd, new_elems, i) ==
    IF i >= 1
    THEN AddSubCommands(addSubCommand(batchCmd, InsertElementCommand(new_elems[i])),
                        new_elems, i - 1)
    ELSE batchCmd

\* Variant without the early return and without the isEmpty test: the batch
\* is pushed and announced whatever it holds.
FinalizeCreation_Unguarded(new_elems, name, hist, chg) ==
    LET nm == IF name = "" THEN DefaultName ELSE name
        batchCmd == AddSubCommands([name |-> nm, stack |-> <<>>],
                                   new_elems.items, Len(new_elems.items))
    IN  [history |-> Append(hist, batchCmd),
         changed |-> Append(chg, new_elems.items)]

\* Variant without the early return whose call("changed", ...) stands after
\* the isEmpty test instead of inside it.
FinalizeCreation_NotifyOutside(new_elems, name, hist, chg) ==
    LET nm == IF name = "" THEN DefaultName ELSE name
        batchCmd == AddSubCommands([name |-> nm, stack |-> <<>>],
                                   new_elems.items, Len(new_elems.items))
    IN  [history |-> IF ~isEmpty(batchCmd) THEN Append(hist, batchCmd) ELSE hist,
         changed |-> Append(chg, new_elems.items)]

\* Variant that calls "changed" inside the loop, once per element.
FinalizeCreation_NotifyEach(new_elems, name, hist, chg) ==
    IF ~new_elems.present \/ Len(new_elems.items) = 0
    THEN [history |-> hist, changed |-> chg]
    ELSE LET nm == IF name = "" THEN DefaultName ELSE name
             batchCmd == AddSubCommands([name |-> nm, stack |-> <<>>],
                                        new_elems.items, Len(new_elems.items))
         IN  [history |-> Append(hist, batchCmd),
              changed |-> chg \o [k \in 1..Len(new_elems.items) |->
                                     <<new_elems.items[k]>>]]

\* finalizeCreation(new_elems, name) on the history stack hist and the event
\* log chg; the result is the pair after the call.
FinalizeCreation(new_elems, name, hist, chg) ==
    IF ~new_elems.present \/ Len(new_elems.items) = 0
    THEN [history |-> hist, changed |-> chg]
    ELSE LET nm == IF name = "" THEN DefaultName ELSE name
             batchCmd == AddSubCommands([name |-> nm, stack |-> <<>>],
                                        new_elems.items, Len(new_elems.items))
         IN  IF ~isEmpty(batchCmd)
             THEN [history |-> Append(hist, batchCmd),
                   changed |-> Append(chg, new_elems.items)]
             ELSE [history |-> hist, changed |-> chg]

\* ------------------------------------------------------------- drawing
\* Variant with width and height exchanged: width: r.h, height: r.w.
RectElement_Swapped(r, id) ==
    [id |-> id, x |-> r.x, y |-> r.y, width |-> r.h, height |-> r.w]

\* The attr object handed to addSvgElementFromJson for descriptor r; fill,
\* stroke and stroke-width are the canvas's ambient style, which the
\* extension reads and never writes, and are left out.
RectElement(r, id) ==
    [id |-> id, x |-> r.x, y |-> r.y, width |-> r.w, height |-> r.h]

\* rects.forEach(... new_elems.push(addSvgElementFromJson(...)) ...): one
\* element per descriptor, in order, ids allocated from id upward.
CreateElems(rects, id) ==
    [i \in 1..Len(rects) |-> RectElement(rects[i], id + i - 1)]

\* Variant of the intersection test with <= and >=: touching counts.
Intersects_NonStrict(selectionBox, ocrRect) ==
    /\ selectionBox.x <= ocrRect.x + ocrRect.w
    /\ selectionBox.x + selectionBox.width >= ocrRect.x
    /\ selectionBox.y <= ocrRect.y + ocrRect.h
    /\ selectionBox.y + selectionBox.height >= ocrRect.y

\* The intersection test of drawOcrRectsInSelection.
Intersects(selectionBox, ocrRect) ==
    LET selX1 == selectionBox.x
        selY1 == selectionBox.y
        selX2 == selectionBox.x + selectionBox.width
        selY2 == selectionBox.y + selectionBox.height
        ocrX1 == ocrRect.x
        ocrY1 == ocrRect.y
        ocrX2 == ocrRect.x + ocrRect.w
        ocrY2 == ocrRect.y + ocrRect.h
    IN  selX1 < ocrX2 /\ selX2 > ocrX1 /\ selY1 < ocrY2 /\ selY2 > ocrY1

\* Variant of the filter that pushes every stored rectangle.
RectsToDraw_Unfiltered(selectionBox, ocrRects) == ocrRects

\* ocrRects.forEach(... if (intersects) rectsToDraw.push(ocrRect) ...)
RECURSIVE RectsToDraw(_, _)
RectsToDraw(selectionBox, ocrRects) ==
    IF ocrRects = <<>>
    THEN <<>>
    ELSE LET rest == RectsToDraw(selectionBox, Tail(ocrRects))
         IN  IF Intersects(selectionBox, Head(ocrRects))
             THEN <<Head(ocrRects)>> \o rest
             ELSE rest

\* ---------------------------------------------------------------- state
\* The record kept in the history variable last: the function called and its
\* arguments (the ones it does not take are Absent, NoBox or "").
Call(op, rects, box, elems, name) ==
    [op |-> op, rects |-> rects, box |-> box, elems |-> elems, name |-> name]

Init ==
    /\ storedOcrRects = Given(<<>>)
    /\ doc = <<>>
    /\ nextId = 1
    /\ history = <<>>
    /\ changed = <<>>
    /\ last = Call("ready", Absent, NoBox, Absent, "")
    /\ lastDelivery = Given(<<>>)
    /\ draws = 0

\* Variant that appends the delivery to the stored rectangles.
StoreOcrResults_Merge(rects) ==
    /\ storedOcrRects' = IF storedOcrRects.present /\ rects.present
                         THEN Given(storedOcrRects.items \o rects.items)
                         ELSE rects
    /\ lastDelivery' = rects
    /\ last' = Call("storeOcrResults", rects, NoBox, Absent, "")
    /\ UNCHANGED <<doc, nextId, history, changed, draws>>

\* Variant that announces a change of the drawing on every delivery.
StoreOcrResults_Notify(rects) ==
    /\ storedOcrRects' = rects
    /\ lastDelivery' = rects
    /\ changed' = Append(changed, <<>>)
    /\ last' = Call("storeOcrResults", rects, NoBox, Absent, "")
    /\ UNCHANGED <<doc, nextId, history, draws>>

\* svgCanvas.storeOcrResults(rects)
StoreOcrResults(rects) ==
    /\ storedOcrRects' = rects
    /\ lastDelivery' = rects
    /\ last' = Call("storeOcrResults", rects, NoBox, Absent, "")
    /\ UNCHANGED <<doc, nextId, history, changed, draws>>

\* svgCanvas.drawOcrRects(rects)
DrawOcrRects(rects) ==
    /\ Len(doc) + Len(rects.items) <= MaxElems
    /\ IF ~rects.present \/ Len(rects.items) = 0
       THEN UNCHANGED <<doc, nextId, history, changed, draws>>
       ELSE LET new_elems == CreateElems(rects.items, nextId)
                fin == FinalizeCreation(Given(new_elems), DrawAllName,
                                        history, changed)
            IN  /\ doc' = doc \o new_elems
                /\ nextId' = nextId + Len(new_elems)
                /\ history' = fin.history
                /\ changed' = fin.changed
                /\ draws' = IF Len(new_elems) > 0 THEN draws + 1 ELSE draws
    /\ last' = Call("drawOcrRects", rects, NoBox, Absent, "")
    /\ UNCHANGED <<storedOcrRects, lastDelivery>>

\* svgCanvas.drawOcrRectsInSelection(selectionBox)
DrawOcrRectsInSelection(selectionBox) ==
    LET ocrRects == storedOcrRects
    IN  /\ IF ~ocrRects.present \/ Len(ocrRects.items) = 0
           THEN UNCHANGED <<doc, nextId, history, changed, draws>>
           ELSE LET rectsToDraw == RectsToDraw(selectionBox, ocrRects.items)
                IN  IF Len(rectsToDraw) > 0
                    THEN LET new_elems == CreateElems(rectsToDraw, nextId)
                             fin == FinalizeCreation(Given(new_elems), DrawSelName,
                                                     history, changed)
                         IN  /\ Len(doc) + Len(new_elems) <= MaxElems
                             /\ doc' = doc \o new_elems
                             /\ nextId' = nextId + Len(new_elems)
                             /\ history' = fin.history
                             /\ changed' = fin.changed
                             /\ draws' = IF Len(new_elems) > 0 THEN draws + 1 ELSE draws
                    ELSE UNCHANGED <<doc, nextId, history, changed, draws>>
        /\ last' = Call("drawOcrRectsInSelection", Absent, selectionBox, Absent, "")
        /\ UNCHANGED <<storedOcrRects, lastDelivery>>

StoreStep == \E rects \in RectArgs : StoreOcrResults(rects)
DrawAllStep == \E rects \in RectArgs : DrawOcrRects(rects)
DrawSelStep == \E selectionBox \in Boxes : DrawOcrRectsInSelection(selectionBox)

Next == StoreStep \/ DrawAllStep \/ DrawSelStep

Spec == Init /\ [][Next]_vars

\* ------------------------------------------------- finalizeCreation alone
\* finalizeCreation is private to the extension, and both callers hand it a
\* non-empty array.  SpecUnit also calls it on its own, as a unit test would:
\* with an absent or empty array, or with the latest elements of the drawing,
\* and with a falsy or a given name, while the history holds fewer than
\* MaxElems entries.  The other three functions are called as in Spec, on
\* fewer arguments.
ElemArgs ==
    {Absent, Given(<<>>)}
        \cup {Given(SubSeq(doc, i, Len(doc))) : i \in 1..Len(doc)}

Names == {"", DrawAllName, "Custom"}

FinalizeCall(new_elems, name) ==
    /\ Len(history) < MaxElems
    /\ LET fin == FinalizeCreation(new_elems, name, history, changed)
       IN  /\ history' = fin.history
           /\ changed' = fin.changed
    /\ last' = Call("finalizeCreation", Absent, NoBox, new_elems, name)
    /\ UNCHANGED <<storedOcrRects, doc, nextId, lastDelivery, draws>>

FinalizeStep == \E new_elems \in ElemArgs, name \in Names : FinalizeCall(new_elems, name)

UnitArgs == {Absent, Given(<<>>), Given(<<RectB>>), Given(<<RectA, RectB>>)}
UnitBoxes == {BoxA, BoxTouch}

UnitStoreStep == \E rects \in UnitArgs : StoreOcrResults(rects)
UnitDrawAllStep == \E rects \in UnitArgs : DrawOcrRects(rects)
UnitDrawSelStep == \E selectionBox \in UnitBoxes : DrawOcrRectsInSelection(selectionBox)

NextUnit == UnitStoreStep \/ UnitDrawAllStep \/ UnitDrawSelStep \/ FinalizeStep

SpecUnit == Init /\ [][NextUnit]_vars

\* ------------------------------------------------------- geometry sweep
\* The intersection test on every rectangle and selection box of the grid:
\* the store holds one delivered rectangle, and drawOcrRectsInSelection is
\* called once, right after the delivery, with each box.
InitSel ==
    \E r \in SelRects :
        /\ storedOcrRects = Given(<<r>>)
        /\ doc = <<>>
        /\ nextId = 1
        /\ history = <<>>
        /\ changed = <<>>
        /\ last = Call("storeOcrResults", Given(<<r>>), NoBox, Absent, "")
        /\ lastDelivery = Given(<<r>>)
        /\ draws = 0

SweepStep ==
    \E selectionBox \in SelBoxes :
        last.op = "storeOcrResults" /\ DrawOcrRectsInSelection(selectionBox)

NextSel == SweepStep

SpecSel == InitSel /\ [][NextSel]_vars

\* ============================================================ properties
IsDrawAll(c) == c.op = "drawOcrRects"
IsDrawSel(c) == c.op = "drawOcrRectsInSelection"
IsStore(c) == c.op = "storeOcrResults"
IsFinalize(c) == c.op = "finalizeCreation"

Geometry(e) == [x |-> e.x, y |-> e.y, w |-> e.width, h |-> e.height]
Reverse(s) == [i \in 1..Len(s) |-> s[Len(s) + 1 - i]]
Wrapped(batchCmd) == [i \in 1..Len(batchCmd.stack) |-> batchCmd.stack[i].elem]
IsPrefix(s, t) == Len(s) <= Len(t) /\ SubSeq(t, 1, Len(s)) = s
Suffix(s, n) == SubSeq(s, Len(s) - n + 1, Len(s))
Min(a, b) == IF a < b THEN a ELSE b
Max(a, b) == IF a > b THEN a ELSE b

\* The selection rule as the specification words it.
Selected(box, r) ==
    /\ box.x < r.x + r.w
    /\ box.x + box.width > r.x
    /\ box.y < r.y + r.h
    /\ box.y + box.height > r.y
SelectedOf(box, rects) == SelectSeq(rects, LAMBDA r : Selected(box, r))

\* Extent of the overlap of box and r along each axis (negative: apart).
OverlapX(box, r) == Min(box.x + box.width, r.x + r.w) - Max(box.x, r.x)
OverlapY(box, r) == Min(box.y + box.height, r.y + r.h) - Max(box.y, r.y)
Proper(box, r) == box.width > 0 /\ box.height > 0 /\ r.w > 0 /\ r.h > 0
TouchesOnly(box, r) ==
    /\ Proper(box, r)
    /\ OverlapX(box, r) >= 0 /\ OverlapY(box, r) >= 0
    /\ OverlapX(box, r) = 0 \/ OverlapY(box, r) = 0
OverlapsArea(box, r) ==
    /\ box.width >= 0 /\ box.height >= 0 /\ r.w >= 0 /\ r.h >= 0
    /\ OverlapX(box, r) > 0 /\ OverlapY(box, r) > 0

\* C1: one drawOcrRects call on a non-empty list appends exactly one element
\* per descriptor to the drawing, the i-th new element carrying the geometry
\* of the i-th descriptor, and emits a changed event whose payload is those
\* new elements in input order.
C1_DrawAllCreatesInOrder ==
    [][(IsDrawAll(last') /\ ~IsEmptyOrAbsent(last'.rects)) =>
        LET rects == last'.rects.items
            n == Len(rects)
        IN  /\ Len(doc') = Len(doc) + n
            /\ IsPrefix(doc, doc')
            /\ \A i \in 1..n : Geometry(doc'[Len(doc) + i]) = rects[i]
            /\ \A i \in 1..Len(doc'), j \in 1..Len(doc') :
                   i # j => doc'[i].id # doc'[j].id
            /\ Len(changed') >= 1
            /\ changed'[Len(changed')] = SubSeq(doc', Len(doc) + 1, Len(doc'))
      ]_vars

C1_Witness ==
    /\ IsDrawAll(last)
    /\ last.rects = Given(<<RectA, RectB>>)
    /\ Len(doc) >= 2
    /\ Geometry(doc[Len(doc) - 1]) = RectA
    /\ Geometry(doc[Len(doc)]) = RectB
    /\ Len(changed) >= 1
    /\ changed[Len(changed)] = Suffix(doc, 2)

\* C2: every batch on the history stack wraps the elements of its changed
\* payload in exactly the reverse order, the payload being the elements in
\* creation order (for a direct finalizeCreation call: the array passed).
C2_SubCommandsReversed ==
    /\ Len(history) = Len(changed)
    /\ \A k \in 1..Len(history) :
           /\ Wrapped(history[k]) = Reverse(changed[k])
           /\ \A i \in 1..Len(changed[k]), j \in 1..Len(changed[k]) :
                  i < j => changed[k][i].id < changed[k][j].id
    /\ (IsFinalize(last) /\ ~IsEmptyOrAbsent(last.elems)) =>
           /\ Len(history) >= 1
           /\ changed[Len(changed)] = last.elems.items
           /\ Wrapped(history[Len(history)]) = Reverse(last.elems.items)

C2_Witness ==
    /\ IsFinalize(last)
    /\ Len(last.elems.items) = 3
    /\ changed[Len(changed)] = last.elems.items
    /\ Wrapped(history[Len(history)])
           = <<last.elems.items[3], last.elems.items[2], last.elems.items[1]>>

\* C3: drawOcrRectsInSelection draws the stored rectangle if and only if
\* selX1 < rectX2, selX2 > rectX1, selY1 < rectY2 and selY2 > rectY1; a
\* rectangle that shares only boundary with the box is not drawn, one that
\* overlaps it by a positive area is.
C3_StrictIntersection ==
    IsDrawSel(last) =>
        LET box == last.box
            r == storedOcrRects.items[1]
            drawn == Len(doc) = 1
        IN  /\ Len(doc) <= 1
            /\ drawn <=> Selected(box, r)
            /\ drawn => Geometry(doc[1]) = r
            /\ TouchesOnly(box, r) => ~drawn
            /\ OverlapsArea(box, r) => drawn

C3_Witness ==
    /\ IsDrawSel(last)
    /\ TouchesOnly(last.box, storedOcrRects.items[1])
    /\ OverlapX(last.box, storedOcrRects.items[1]) = 0
    /\ OverlapY(last.box, storedOcrRects.items[1]) > 0
    /\ doc = <<>>

\* C4: drawOcrRects on an absent or empty list, drawOcrRectsInSelection on an
\* absent or empty store and finalizeCreation on an absent or empty array
\* change nothing: no element, no history entry, no changed event.
C4_EmptyInputNoOp ==
    [][(\/ IsDrawAll(last') /\ IsEmptyOrAbsent(last'.rects)
        \/ IsDrawSel(last') /\ IsEmptyOrAbsent(storedOcrRects)
        \/ IsFinalize(last') /\ IsEmptyOrAbsent(last'.elems))
       => UNCHANGED <<doc, nextId, history, changed, storedOcrRects>>
      ]_vars

C4_Witness ==
    /\ IsFinalize(last)
    /\ ~last.elems.present
    /\ Len(doc) > 0
    /\ Len(history) > 0

\* C5: the store is always the argument of the latest storeOcrResults call
\* (empty before any), and drawOcrRectsInSelection draws from that latest
\* delivery alone.
C5_StoreIsLatestDelivery ==
    /\ storedOcrRects = lastDelivery
    /\ [][/\ storedOcrRects' = lastDelivery'
          /\ IsStore(last') => storedOcrRects' = last'.rects
          /\ ~IsStore(last') => lastDelivery' = lastDelivery
          /\ IsDrawSel(last') =>
                 LET new == SubSeq(doc', Len(doc) + 1, Len(doc'))
                 IN  [i \in 1..Len(new) |-> Geometry(new[i])]
                         = SelectedOf(last'.box, lastDelivery.items)
         ]_vars

\* An earlier delivery held RectA, which was drawn; the latest holds RectB
\* alone, and a selection over both rectangles drew RectB only.
C5_Witness ==
    /\ IsDrawSel(last)
    /\ last.box = BoxAll
    /\ storedOcrRects = Given(<<RectB>>)
    /\ Len(history) = 2
    /\ history[1].name = DrawSelName
    /\ Geometry(doc[1]) = RectA
    /\ Len(doc) = 2
    /\ Geometry(doc[2]) = RectB

\* C6: no batch on the history stack is empty.
C6_NoEmptyBatch ==
    \A k \in 1..Len(history) : Len(history[k].stack) >= 1

\* Two batches are on the stack and finalizeCreation has since been called on
\* an empty array.
C6_Witness ==
    /\ Len(history) = 2
    /\ history[1].name = DrawSelName
    /\ history[2].name = DefaultName
    /\ IsFinalize(last)
    /\ last.elems = Given(<<>>)

\* C7: one drawOcrRects call on a non-empty list pushes exactly one history
\* entry and emits exactly one changed event.
C7_OneEntryOneEvent ==
    [][(IsDrawAll(last') /\ ~IsEmptyOrAbsent(last'.rects)) =>
        /\ Len(history') = Len(history) + 1
        /\ IsPrefix(history, history')
        /\ history'[Len(history')].name = DrawAllName
        /\ Len(changed') = Len(changed) + 1
        /\ IsPrefix(changed, changed')
      ]_vars

C7_Witness ==
    /\ IsDrawAll(last)
    /\ Len(last.rects.items) = MaxLen
    /\ Len(doc) = MaxLen
    /\ Len(history) = 1
    /\ Len(changed) = 1

\* C8: drawOcrRectsInSelection on a non-empty store creates one element per
\* stored rectangle meeting the box, in stored order, and no other; it then
\* records exactly one history entry, named "Create Occlusion Masks in
\* Selection", and when no rectangle meets the box it creates and records
\* nothing.
C8_DrawInSelection ==
    [][(IsDrawSel(last') /\ ~IsEmptyOrAbsent(storedOcrRects)) =>
        LET sel == SelectedOf(last'.box, storedOcrRects.items)
            new == SubSeq(doc', Len(doc) + 1, Len(doc'))
        IN  /\ IsPrefix(doc, doc')
            /\ [i \in 1..Len(new) |-> Geometry(new[i])] = sel
            /\ IsPrefix(history, history')
            /\ IF sel # <<>>
               THEN /\ Len(history') = Len(history) + 1
                    /\ history'[Len(history')].name = DrawSelName
                    /\ Wrapped(history'[Len(history')]) = Reverse(new)
               ELSE UNCHANGED <<doc, nextId, history, changed>>
      ]_vars

C8_Witness ==
    /\ IsDrawSel(last)
    /\ last.box = BoxA
    /\ storedOcrRects = Given(<<RectA, RectB>>)
    /\ Len(doc) = 1
    /\ Geometry(doc[1]) = RectA
    /\ Len(history) = 1
    /\ history[1].name = DrawSelName

\* C9: storeOcrResults changes the store and nothing else: the drawing, the
\* id allocator, the history stack and the changed events stay as they were.
C9_StoreFrame ==
    [][IsStore(last') =>
        /\ storedOcrRects' = last'.rects
        /\ UNCHANGED <<doc, nextId, history, changed>>
      ]_vars

C9_Witness ==
    /\ IsStore(last)
    /\ Len(last.rects.items) = MaxLen
    /\ Len(doc) > 0
    /\ Len(history) > 0

\* C10: every element the extension created is wrapped by exactly one
\* sub-command of the history stack, and the stack holds one entry per draw
\* call that created an element.
C10_EveryElementOnceInHistory ==
    LET positions == UNION {{<<k, i>> : i \in 1..Len(history[k].stack)} :
                               k \in 1..Len(history)}
    IN  /\ \A d \in 1..Len(doc) :
               Cardinality({p \in positions :
                               history[p[1]].stack[p[2]].elem = doc[d]}) = 1
        /\ \A p \in positions :
               \E d \in 1..Len(doc) : history[p[1]].stack[p[2]].elem = doc[d]
        /\ \A d \in 1..Len(doc), e \in 1..Len(doc) : d # e => doc[d] # doc[e]
        /\ Len(history) = draws

C10_Witness ==
    /\ Len(doc) = MaxElems
    /\ Len(history) >= 2
    /\ draws = Len(history)
    /\ \E k \in 1..Len(history) : Len(history[k].stack) >= 2

====
